---- MODULE Spec2Model ----
(***************************************************************************)
(* The diagnostic error model of src/json/error.rs: the ErrorCode enum and *)
(* its fmt::Show rendering, the Error envelope with description() and      *)
(* detail(), the derived PartialEq, and the lifting of an io::IoError.     *)
(*                                                                         *)
(* Representation.  Rendered text is a TLA+ string, built with \o.  A      *)
(* payload string (String, &'static str) is a sequence of characters, each *)
(* a one-character TLA+ string, so that the per-character escaping done by *)
(* {:?} can be computed.  An enum value is a record with a tag field and   *)
(* one field per payload position.  Option<T> is None or Some(x).          *)
(*                                                                         *)
(* Formatting traits, as the source uses them:                             *)
(*   "literal".fmt(f)        writes the literal's characters               *)
(*   {}   on &'static str    writes the characters unchanged               *)
(*   {:?} on String          writes a double-quoted, escaped literal       *)
(*   {:?} on uint            writes the decimal digits                     *)
(*   {:?} on ErrorCode       is the impl fmt::Show for ErrorCode           *)
(*   {:?} on Token, on &[TokenKind]   the derived Show of module de        *)
(***************************************************************************)
EXTENDS Integers, Sequences, FiniteSets, TLC

(***************************************************************************)
(* Bounds of the model.                                                    *)
(***************************************************************************)
\* longest payload string (String / &'static str) drawn as an input
MaxStrLen == 2
\* longest &'static [TokenKind] slice drawn as an input
MaxKinds == 2
\* largest line / column drawn as an input (columns reach two digits)
MaxLine == 3
MaxCol == 12
\* the same, for the runs that hold two values side by side
PairStrLen == 1
PairMaxKinds == 1
\* the two-digit position of those runs, beside the one-digit position 1
PairBig == 11

(***************************************************************************)
(* Characters.  A TLA+ string literal cannot contain U+0060 (grave         *)
(* accent); BT is the character that stands for it in rendered text.  It   *)
(* occurs in no other literal of this module and not in Alphabet.          *)
(***************************************************************************)
BT == "^"

\* the characters payload strings are drawn from: a plain character, the
\* double quote and the backslash (the last two are escaped by {:?})
Alphabet == {"a", "\"", "\\"}

RECURSIVE SeqsUpTo(_, _)
SeqsUpTo(S, n) ==
    IF n = 0 THEN {<<>>}
    ELSE LET shorter == SeqsUpTo(S, n - 1)
         IN  shorter \cup {Append(s, x) : s \in shorter, x \in S}

Strings == SeqsUpTo(Alphabet, MaxStrLen)

PairStrings == SeqsUpTo(Alphabet, PairStrLen)

(***************************************************************************)
(* Option<T>                                                               *)
(***************************************************************************)
None == [some |-> FALSE]
Some(x) == [some |-> TRUE, val |-> x]

(***************************************************************************)
(* std formatting used by the source                                       *)
(***************************************************************************)
\* {} on a &str, and String::as_slice: the characters, unchanged
RECURSIVE DisplayStr(_)
DisplayStr(s) ==
    IF s = <<>> THEN "" ELSE Head(s) \o DisplayStr(Tail(s))

\* char::escape_default, on the characters of Alphabet
EscapeDefault(c) ==
    CASE c = "\"" -> "\\\""
      [] c = "\\" -> "\\\\"
      [] OTHER    -> c

RECURSIVE EscapeAll(_)
EscapeAll(s) ==
    IF s = <<>> THEN "" ELSE EscapeDefault(Head(s)) \o EscapeAll(Tail(s))

\* {:?} on a String: a double-quoted literal, every character escaped
ShowStr(s) == "\"" \o EscapeAll(s) \o "\""

Digit(d) ==
    CASE d = 0 -> "0" [] d = 1 -> "1" [] d = 2 -> "2" [] d = 3 -> "3"
      [] d = 4 -> "4" [] d = 5 -> "5" [] d = 6 -> "6" [] d = 7 -> "7"
      [] d = 8 -> "8" [] d = 9 -> "9"

\* {:?} on a uint: its decimal digits, most significant first
RECURSIVE ShowUint(_)
ShowUint(n) ==
    IF n < 10 THEN Digit(n) ELSE ShowUint(n \div 10) \o Digit(n % 10)

(***************************************************************************)
(* Token and TokenKind, of module de (used by error.rs, defined elsewhere) *)
(***************************************************************************)
Tokens == {[tag |-> "Null"], [tag |-> "Bool", v |-> TRUE], [tag |-> "Bool", v |-> FALSE]}

TokenKinds == {"NullKind", "BoolKind"}

KindSlices == SeqsUpTo(TokenKinds, MaxKinds)

PairKindSlices == SeqsUpTo(TokenKinds, PairMaxKinds)

\* {:?} on a Token: the derived Show, variant name and payload
ShowToken(t) ==
    CASE t.tag = "Null" -> "Null"
      [] t.tag = "Bool" -> "Bool(" \o (IF t.v THEN "true" ELSE "false") \o ")"

\* {:?} on a TokenKind: the derived Show of a payload-free variant
ShowTokenKind(k) ==
    CASE k = "NullKind" -> "NullKind"
      [] k = "BoolKind" -> "BoolKind"

RECURSIVE ShowKindsFrom(_)
ShowKindsFrom(ks) ==
    IF ks = <<>> THEN ""
    ELSE IF Len(ks) = 1 THEN ShowTokenKind(Head(ks))
    ELSE ShowTokenKind(Head(ks)) \o ", " \o ShowKindsFrom(Tail(ks))

\* {:?} on a &[TokenKind]: the elements, comma separated, in brackets
ShowKinds(ks) == "[" \o ShowKindsFrom(ks) \o "]"

(***************************************************************************)
(* enum ErrorCode                                                          *)
(***************************************************************************)
NullaryVariants ==
    { "EOFWhileParsingList", "EOFWhileParsingObject", "EOFWhileParsingString",
      "EOFWhileParsingValue", "ExpectedColon", "ExpectedConversion",
      "ExpectedEnumEnd", "ExpectedEnumEndToken", "ExpectedEnumMapStart",
      "ExpectedEnumToken", "ExpectedEnumVariantString", "ExpectedListCommaOrEnd",
      "ExpectedName", "ExpectedObjectCommaOrEnd", "ExpectedSomeIdent",
      "ExpectedSomeValue", "InvalidEscape", "InvalidNumber",
      "InvalidUnicodeCodePoint", "KeyMustBeAString",
      "LoneLeadingSurrogateInHexEscape", "NotFourDigit", "NotUtf8",
      "TrailingCharacters", "UnexpectedEndOfHexEscape", "UnknownVariant",
      "UnrecognizedHex" }

Nullary(tag) == [tag |-> tag]
ConversionError(token) == [tag |-> "ConversionError", token |-> token]
ExpectedTokens(token, kinds) == [tag |-> "ExpectedTokens", token |-> token, kinds |-> kinds]
MissingField(field) == [tag |-> "MissingField", field |-> field]
UnexpectedName(token) == [tag |-> "UnexpectedName", token |-> token]

\* every ErrorCode over the given &'static str and &'static [TokenKind] values
ErrorCodesOver(names, slices) ==
    {Nullary(v) : v \in NullaryVariants}
    \cup {ConversionError(t) : t \in Tokens}
    \cup {ExpectedTokens(t, ks) : t \in Tokens, ks \in slices}
    \cup {MissingField(s) : s \in names}
    \cup {UnexpectedName(t) : t \in Tokens}

ErrorCodes == ErrorCodesOver(Strings, KindSlices)

\* fn fmt of impl fmt::Show for ErrorCode: one arm per variant, no default arm
fmt(c) ==
    CASE c.tag = "ConversionError" -> "failed to convert " \o ShowToken(c.token)
      [] c.tag = "EOFWhileParsingList" -> "EOF While parsing list"
      [] c.tag = "EOFWhileParsingObject" -> "EOF While parsing object"
      [] c.tag = "EOFWhileParsingString" -> "EOF While parsing string"
      [] c.tag = "EOFWhileParsingValue" -> "EOF While parsing value"
      [] c.tag = "ExpectedColon" -> "expected " \o BT \o ":" \o BT
      [] c.tag = "ExpectedConversion" -> "expected conversion"
      [] c.tag = "ExpectedEnumEnd" -> "expected enum end"
      [] c.tag = "ExpectedEnumEndToken" -> "expected enum map end"
      [] c.tag = "ExpectedEnumMapStart" -> "expected enum map start"
      [] c.tag = "ExpectedEnumToken" -> "expected enum token"
      [] c.tag = "ExpectedEnumVariantString" -> "expected variant"
      [] c.tag = "ExpectedListCommaOrEnd" -> "expected " \o BT \o "," \o BT \o " or " \o BT \o "]" \o BT
      [] c.tag = "ExpectedName" -> "expected name"
      [] c.tag = "ExpectedObjectCommaOrEnd" -> "expected " \o BT \o "," \o BT \o " or " \o BT \o "}" \o BT
      [] c.tag = "ExpectedSomeIdent" -> "expected ident"
      [] c.tag = "ExpectedSomeValue" -> "expected value"
      [] c.tag = "ExpectedTokens" ->
            "expected " \o ShowKinds(c.kinds) \o ", found " \o ShowToken(c.token)
      [] c.tag = "InvalidEscape" -> "invalid escape"
      [] c.tag = "InvalidNumber" -> "invalid number"
      [] c.tag = "InvalidUnicodeCodePoint" -> "invalid unicode code point"
      [] c.tag = "KeyMustBeAString" -> "key must be a string"
      [] c.tag = "LoneLeadingSurrogateInHexEscape" -> "lone leading surrogate in hex escape"
      [] c.tag = "MissingField" -> "missing field \"" \o DisplayStr(c.field) \o "\""
      [] c.tag = "NotFourDigit" -> "invalid \\u escape (not four digits)"
      [] c.tag = "NotUtf8" -> "contents not utf-8"
      [] c.tag = "TrailingCharacters" -> "trailing characters"
      [] c.tag = "UnexpectedEndOfHexEscape" -> "unexpected end of hex escape"
      [] c.tag = "UnexpectedName" -> "unexpected name " \o ShowToken(c.token)
      [] c.tag = "UnknownVariant" -> "unknown variant"
      [] c.tag = "UnrecognizedHex" -> "invalid \\u escape (unrecognized hex)"

\* a slip in one phrase of the table
ShowErrorCodeTypo(c) ==
    IF c.tag = "ExpectedEnumEndToken" THEN "expected enum end token" ELSE fmt(c)

\* the ExpectedTokens arm with its two arguments in the other order
ShowErrorCodeSwapped(c) ==
    IF c.tag = "ExpectedTokens"
    THEN "expected " \o ShowToken(c.token) \o ", found " \o ShowKinds(c.kinds)
    ELSE fmt(c)

\* {:?} on an ErrorCode: impl fmt::Show for ErrorCode
ShowErrorCode(c) == fmt(c)

(***************************************************************************)
(* io::IoError (std), the failure the byte stream reports: the public      *)
(* fields kind, desc and detail.  Its description() is desc and its        *)
(* detail() is a copy of detail.                                           *)
(***************************************************************************)
IoErrorsOver(details) ==
    [kind : {"EndOfFile", "OtherIoError"},
     desc : {"end of file", "unknown error"},
     detail : {None} \cup {Some(DisplayStr(d)) : d \in details}]

IoErrors == IoErrorsOver(Strings)

IoDescription(error) == error.desc

IoDetail(error) == error.detail

(***************************************************************************)
(* enum Error                                                              *)
(***************************************************************************)
SyntaxError(code, line, col) == [tag |-> "SyntaxError", code |-> code, line |-> line, col |-> col]
IoError(error) == [tag |-> "IoError", error |-> error]
ExpectedError(expected, found) == [tag |-> "ExpectedError", expected |-> expected, found |-> found]
MissingFieldError(field) == [tag |-> "MissingFieldError", field |-> field]
UnknownVariantError(variant) == [tag |-> "UnknownVariantError", variant |-> variant]

\* impl error::Error for Error: description
description(e) ==
    CASE e.tag = "SyntaxError" -> "syntax error"
      [] e.tag = "IoError" -> IoDescription(e.error)
      [] e.tag = "ExpectedError" -> DisplayStr(e.expected)
      [] e.tag = "MissingFieldError" -> "missing field"
      [] e.tag = "UnknownVariantError" -> "unknown variant"

\* line and col in the other order
SyntaxDetailSwapped(c, line, col) ==
    ShowErrorCode(c) \o " at line " \o ShowUint(col) \o " column " \o ShowUint(line)

\* the column left out
SyntaxDetailNoColumn(c, line, col) ==
    ShowErrorCode(c) \o " at line " \o ShowUint(line)

\* format!("{:?} at line {:?} column {:?}", code, line, col)
SyntaxDetail(c, line, col) ==
    ShowErrorCode(c) \o " at line " \o ShowUint(line) \o " column " \o ShowUint(col)

\* the found string formatted with {} where the source has {:?}
ExpectedDetailPlainFound(expected, found) ==
    "expected " \o ShowStr(expected) \o ", found " \o DisplayStr(found)

\* format!("expected {:?}, found {:?}", expected, found)
ExpectedDetail(expected, found) ==
    "expected " \o ShowStr(expected) \o ", found " \o ShowStr(found)

\* the quotes written by hand around {}, as the ErrorCode::MissingField arm does
MissingFieldDetailHandQuoted(field) ==
    "missing field \"" \o DisplayStr(field) \o "\""

\* format!("missing field {:?}", field)
MissingFieldDetail(field) == "missing field " \o ShowStr(field)

\* format!("unknown variant {:?}", variant)
UnknownVariantDetail(variant) == "unknown variant " \o ShowStr(variant)

\* the elaboration of a wrapped I/O failure dropped
detailIoNone(e) ==
    CASE e.tag = "SyntaxError" -> Some(SyntaxDetail(e.code, e.line, e.col))
      [] e.tag = "IoError" -> None
      [] e.tag = "ExpectedError" -> Some(ExpectedDetail(e.expected, e.found))
      [] e.tag = "MissingFieldError" -> Some(MissingFieldDetail(e.field))
      [] e.tag = "UnknownVariantError" -> Some(UnknownVariantDetail(e.variant))

\* impl error::Error for Error: detail
detail(e) ==
    CASE e.tag = "SyntaxError" -> Some(SyntaxDetail(e.code, e.line, e.col))
      [] e.tag = "IoError" -> IoDetail(e.error)
      [] e.tag = "ExpectedError" -> Some(ExpectedDetail(e.expected, e.found))
      [] e.tag = "MissingFieldError" -> Some(MissingFieldDetail(e.field))
      [] e.tag = "UnknownVariantError" -> Some(UnknownVariantDetail(e.variant))

\* the elaboration lost on the way in
from_errorLossy(error) == IoError([error EXCEPT !.detail = None])

\* impl error::FromError<io::IoError> for Error: from_error
from_error(error) == IoError(error)

(***************************************************************************)
(* #[derive(PartialEq)]: same variant, and every field equal in turn       *)
(***************************************************************************)
TokenEq(x, y) ==
    /\ x.tag = y.tag
    /\ CASE x.tag = "Bool" -> x.v = y.v
         [] OTHER -> TRUE

ErrorCodeEq(x, y) ==
    /\ x.tag = y.tag
    /\ CASE x.tag = "ConversionError" -> TokenEq(x.token, y.token)
         [] x.tag = "ExpectedTokens" -> TokenEq(x.token, y.token) /\ x.kinds = y.kinds
         [] x.tag = "MissingField" -> x.field = y.field
         [] x.tag = "UnexpectedName" -> TokenEq(x.token, y.token)
         [] OTHER -> TRUE

IoErrorEq(x, y) == x.kind = y.kind /\ x.desc = y.desc /\ x.detail = y.detail

\* the column left out of the comparison
ErrorEqNoCol(x, y) ==
    /\ x.tag = y.tag
    /\ CASE x.tag = "SyntaxError" -> ErrorCodeEq(x.code, y.code) /\ x.line = y.line
         [] x.tag = "IoError" -> IoErrorEq(x.error, y.error)
         [] x.tag = "ExpectedError" -> x.expected = y.expected /\ x.found = y.found
         [] x.tag = "MissingFieldError" -> x.field = y.field
         [] x.tag = "UnknownVariantError" -> x.variant = y.variant

ErrorEq(x, y) ==
    /\ x.tag = y.tag
    /\ CASE x.tag = "SyntaxError" ->
              ErrorCodeEq(x.code, y.code) /\ x.line = y.line /\ x.col = y.col
         [] x.tag = "IoError" -> IoErrorEq(x.error, y.error)
         [] x.tag = "ExpectedError" -> x.expected = y.expected /\ x.found = y.found
         [] x.tag = "MissingFieldError" -> x.field = y.field
         [] x.tag = "UnknownVariantError" -> x.variant = y.variant

(***************************************************************************)
(* State.  A pipeline stage holds what it detected (an ErrorCode, or the   *)
(* io::IoError a read returned), builds the Error once, and the caller     *)
(* renders it.  An Error is never changed after it is built.  The second   *)
(* set of variables holds a second value of the same kind, for the runs    *)
(* that compare two values (==) or render both.                            *)
(***************************************************************************)
VARIABLES
    code,    \* the ErrorCode the stage detected, or NoCode
    shown,   \* the result of rendering code ({:?}), or NotCalled
    io,      \* the io::IoError a read returned, or NoIo
    err,     \* the Error built, or NoError
    desc,    \* the result of err.description(), or NotCalled
    det,     \* the result of err.detail(), or NotCalled
    ocode,   \* a second ErrorCode, or NoCode
    oshown,  \* the result of rendering ocode, or NotCalled
    other,   \* a second Error, or NoError
    odesc,   \* the result of other.description(), or NotCalled
    odet,    \* the result of other.detail(), or NotCalled
    eq       \* the result of code == ocode or of err == other, or NotCalled

first == <<code, shown, io, err, desc, det>>
second == <<ocode, oshown, other, odesc, odet, eq>>
vars == <<first, second>>

NoCode == [tag |-> "NoCode"]
NoIo == [tag |-> "NoIo"]
NoError == [tag |-> "NoError"]
NotCalled == [called |-> FALSE]
Ret(v) == [called |-> TRUE, val |-> v]

NothingCalled ==
    /\ shown = NotCalled /\ desc = NotCalled /\ det = NotCalled
    /\ oshown = NotCalled /\ odesc = NotCalled /\ odet = NotCalled
    /\ eq = NotCalled

\* a stage starts with a detected code, with a failed read, or with neither
\* (a shape-level failure, built from strings alone)
Init ==
    /\ \/ code \in ErrorCodes /\ io = NoIo
       \/ code = NoCode /\ io \in IoErrors
       \/ code = NoCode /\ io = NoIo
    /\ err = NoError
    /\ ocode = NoCode
    /\ other = NoError
    /\ NothingCalled

\* format!("{:?}", code)
Fmt ==
    /\ code # NoCode
    /\ shown = NotCalled
    /\ shown' = Ret(ShowErrorCode(code))
    /\ UNCHANGED <<code, io, err, desc, det, second>>

\* Error::SyntaxError(code, line, col), at the position of detection
MkSyntaxError ==
    /\ code # NoCode
    /\ err = NoError
    /\ \E line \in 0..MaxLine, col \in 0..MaxCol : err' = SyntaxError(code, line, col)
    /\ UNCHANGED <<code, shown, io, desc, det, second>>

\* FromError::from_error(io)
Lift ==
    /\ io # NoIo
    /\ err = NoError
    /\ err' = from_error(io)
    /\ UNCHANGED <<code, shown, io, desc, det, second>>

\* Error::ExpectedError(expected, found)
MkExpectedError ==
    /\ code = NoCode /\ io = NoIo
    /\ err = NoError
    /\ \E expected \in Strings, found \in Strings : err' = ExpectedError(expected, found)
    /\ UNCHANGED <<code, shown, io, desc, det, second>>

\* Error::MissingFieldError(field)
MkMissingFieldError ==
    /\ code = NoCode /\ io = NoIo
    /\ err = NoError
    /\ \E field \in Strings : err' = MissingFieldError(field)
    /\ UNCHANGED <<code, shown, io, desc, det, second>>

\* Error::UnknownVariantError(variant)
MkUnknownVariantError ==
    /\ code = NoCode /\ io = NoIo
    /\ err = NoError
    /\ \E variant \in Strings : err' = UnknownVariantError(variant)
    /\ UNCHANGED <<code, shown, io, desc, det, second>>

\* err.description()
Description ==
    /\ err # NoError
    /\ desc = NotCalled
    /\ desc' = Ret(description(err))
    /\ UNCHANGED <<code, shown, io, err, det, second>>

\* err.detail()
Detail ==
    /\ err # NoError
    /\ det = NotCalled
    /\ det' = Ret(detail(err))
    /\ UNCHANGED <<code, shown, io, err, desc, second>>

Next ==
    \/ Fmt
    \/ MkSyntaxError
    \/ Lift
    \/ MkExpectedError
    \/ MkMissingFieldError
    \/ MkUnknownVariantError
    \/ Description
    \/ Detail

Spec == Init /\ [][Next]_vars

(***************************************************************************)
(* Two values side by side: two ErrorCodes, or two Errors, already built.  *)
(* A run applies one operation: == on the two, or the same rendering on    *)
(* each.                                                                   *)
(***************************************************************************)
PairCodes == ErrorCodesOver(PairStrings, PairKindSlices)

PairErrors ==
    {SyntaxError(c, l, k) : c \in PairCodes, l \in {1, PairBig}, k \in {1, PairBig}}
    \cup {from_error(e) : e \in IoErrorsOver(PairStrings)}
    \cup {ExpectedError(x, y) : x \in PairStrings, y \in PairStrings}
    \cup {MissingFieldError(x) : x \in PairStrings}
    \cup {UnknownVariantError(x) : x \in PairStrings}

InitPair ==
    /\ \/ /\ code \in ErrorCodes /\ ocode \in ErrorCodes
          /\ err = NoError /\ other = NoError
       \/ /\ code = NoCode /\ ocode = NoCode
          /\ err \in PairErrors /\ other \in PairErrors
    /\ io = NoIo
    /\ NothingCalled

\* code == ocode
CodeEqPair ==
    /\ code # NoCode /\ ocode # NoCode
    /\ NothingCalled
    /\ eq' = Ret(ErrorCodeEq(code, ocode))
    /\ UNCHANGED <<first, ocode, oshown, other, odesc, odet>>

\* format!("{:?}", code) and format!("{:?}", ocode)
FmtPair ==
    /\ code # NoCode /\ ocode # NoCode
    /\ NothingCalled
    /\ shown' = Ret(ShowErrorCode(code))
    /\ oshown' = Ret(ShowErrorCode(ocode))
    /\ UNCHANGED <<code, io, err, desc, det, ocode, other, odesc, odet, eq>>

\* err == other
EqPair ==
    /\ err # NoError /\ other # NoError
    /\ NothingCalled
    /\ eq' = Ret(ErrorEq(err, other))
    /\ UNCHANGED <<first, ocode, oshown, other, odesc, odet>>

\* err.description() and other.description()
DescriptionPair ==
    /\ err # NoError /\ other # NoError
    /\ NothingCalled
    /\ desc' = Ret(description(err))
    /\ odesc' = Ret(description(other))
    /\ UNCHANGED <<code, shown, io, err, det, ocode, oshown, other, odet, eq>>

\* err.detail() and other.detail()
DetailPair ==
    /\ err # NoError /\ other # NoError
    /\ NothingCalled
    /\ det' = Ret(detail(err))
    /\ odet' = Ret(detail(other))
    /\ UNCHANGED <<code, shown, io, err, desc, ocode, oshown, other, odesc, eq>>

NextPair ==
    \/ CodeEqPair
    \/ FmtPair
    \/ EqPair
    \/ DescriptionPair
    \/ DetailPair

SpecPair == InitPair /\ [][NextPair]_vars

(***************************************************************************)
(* Properties                                                              *)
(***************************************************************************)

\* The fixed-string table of the specification, section 4.1: nullary
\* variant -> phrase.
PhraseTable ==
    ("EOFWhileParsingList" :> "EOF While parsing list")
    @@ ("EOFWhileParsingObject" :> "EOF While parsing object")
    @@ ("EOFWhileParsingString" :> "EOF While parsing string")
    @@ ("EOFWhileParsingValue" :> "EOF While parsing value")
    @@ ("ExpectedColon" :> "expected " \o BT \o ":" \o BT)
    @@ ("ExpectedConversion" :> "expected conversion")
    @@ ("ExpectedEnumEnd" :> "expected enum end")
    @@ ("ExpectedEnumEndToken" :> "expected enum map end")
    @@ ("ExpectedEnumMapStart" :> "expected enum map start")
    @@ ("ExpectedEnumToken" :> "expected enum token")
    @@ ("ExpectedEnumVariantString" :> "expected variant")
    @@ ("ExpectedListCommaOrEnd" :> "expected " \o BT \o "," \o BT \o " or " \o BT \o "]" \o BT)
    @@ ("ExpectedName" :> "expected name")
    @@ ("ExpectedObjectCommaOrEnd" :> "expected " \o BT \o "," \o BT \o " or " \o BT \o "}" \o BT)
    @@ ("ExpectedSomeIdent" :> "expected ident")
    @@ ("ExpectedSomeValue" :> "expected value")
    @@ ("InvalidEscape" :> "invalid escape")
    @@ ("InvalidNumber" :> "invalid number")
    @@ ("InvalidUnicodeCodePoint" :> "invalid unicode code point")
    @@ ("KeyMustBeAString" :> "key must be a string")
    @@ ("LoneLeadingSurrogateInHexEscape" :> "lone leading surrogate in hex escape")
    @@ ("NotFourDigit" :> "invalid \\u escape (not four digits)")
    @@ ("NotUtf8" :> "contents not utf-8")
    @@ ("TrailingCharacters" :> "trailing characters")
    @@ ("UnexpectedEndOfHexEscape" :> "unexpected end of hex escape")
    @@ ("UnknownVariant" :> "unknown variant")
    @@ ("UnrecognizedHex" :> "invalid \\u escape (unrecognized hex)")

DecimalDigits == "0123456789"

RECURSIVE Decimal(_)
Decimal(n) ==
    IF n < 10 THEN SubSeq(DecimalDigits, n + 1, n + 1)
    ELSE Decimal(n \div 10) \o SubSeq(DecimalDigits, (n % 10) + 1, (n % 10) + 1)

C4_Lifting ==
    /\ (io # NoIo /\ err = NoError) => ENABLED Lift
    /\ (io # NoIo /\ err # NoError) =>
          /\ err = IoError(io)
          /\ desc # NotCalled => desc.val = IoDescription(io)
          /\ det # NotCalled => det.val = IoDetail(io)

\* C4 witness: a failure with an elaboration was lifted and both accessors
\* were called on the result.
C4_Witness ==
    /\ io # NoIo
    /\ err.tag = "IoError"
    /\ io.detail # None
    /\ desc # NotCalled
    /\ det # NotCalled /\ det.val.some

\* C6 as stated: ExpectedTokens(token, kinds) renders to the rendered kinds,
\* ", found ", the rendered token, with nothing before the rendered kinds.
C6_Original ==
    (shown # NotCalled /\ code.tag = "ExpectedTokens") =>
        shown.val = ShowKinds(code.kinds) \o ", found " \o ShowToken(code.token)

\* C6 amended: ExpectedTokens(token, kinds) renders to "expected ", the
\* rendered kinds, ", found ", the rendered token.
C6_ExpectedTokens ==
    (shown # NotCalled /\ code.tag = "ExpectedTokens") =>
        shown.val = "expected " \o ShowKinds(code.kinds) \o ", found " \o ShowToken(code.token)

\* C6 witness: an ExpectedTokens code with two acceptable kinds was rendered.
C6_Witness ==
    /\ code.tag = "ExpectedTokens"
    /\ Len(code.kinds) = 2
    /\ shown = Ret("expected [NullKind, BoolKind], found Bool(true)")

\* C7 as stated: the detail of ExpectedError(expected, found) is "expected ",
\* the expected string, ", found ", the found string, both verbatim (no
\* quotes or escapes added), and description() is the expected string.
C7_Original ==
    (err.tag = "ExpectedError") =>
        /\ det # NotCalled =>
              det.val = Some("expected " \o DisplayStr(err.expected)
                             \o ", found " \o DisplayStr(err.found))
        /\ desc # NotCalled => desc.val = DisplayStr(err.expected)

\* C7 amended: the detail of ExpectedError(expected, found) is present and
\* is "expected ", the expected string as a double-quoted, escaped literal,
\* ", found ", the found string as a double-quoted, escaped literal;
\* description() is the expected string verbatim.
C7_ExpectedDetail ==
    (err.tag = "ExpectedError") =>
        /\ det # NotCalled =>
              det.val = Some("expected " \o ShowStr(err.expected)
                             \o ", found " \o ShowStr(err.found))
        /\ desc # NotCalled => desc.val = DisplayStr(err.expected)

\* C7 witness: both accessors were called on ExpectedError("a", "\""); the
\* detail quotes both strings and escapes the quote character.
C7_Witness ==
    /\ err = ExpectedError(<<"a">>, <<"\"">>)
    /\ desc = Ret("a")
    /\ det = Ret(Some("expected \"a\", found \"\\\"\""))

\* C9: detail() can always be called, and its result is absent only for a
\* wrapped I/O failure without elaboration: present for the four other
\* variants, and for IoError(e) present exactly when e's own detail is, and
\* then equal to it.
C9_DetailPresent ==
    /\ (err # NoError /\ det = NotCalled) => ENABLED Detail
    /\ det # NotCalled =>
          IF err.tag = "IoError"
          THEN /\ det.val.some <=> IoDetail(err.error).some
               /\ det.val.some => det.val.val = IoDetail(err.error).val
          ELSE det.val.some

\* C9 witness: detail() was called on a wrapped failure that has no
\* elaboration, and returned None.
C9_Witness ==
    /\ err.tag = "IoError"
    /\ err.error.detail = None
    /\ det = Ret(None)

\* whether sub occurs in text
Contains(text, sub) ==
    \E i \in 1..(Len(text) - Len(sub) + 1) : SubSeq(text, i, i + Len(sub) - 1) = sub

NamedVariants == {"MissingFieldError", "UnknownVariantError"}

NameOf(e) == IF e.tag = "MissingFieldError" THEN e.field ELSE e.variant

\* C8 as stated: the detail of MissingFieldError(s) is "missing field "
\* followed by s in double quotes, that of UnknownVariantError(s) is
\* "unknown variant " followed by s in double quotes; two such errors of the
\* same variant with different names have different details, each
\* containing its own name.
C8_Original ==
    /\ (det # NotCalled /\ err.tag = "MissingFieldError") =>
          det.val = Some("missing field \"" \o DisplayStr(err.field) \o "\"")
    /\ (det # NotCalled /\ err.tag = "UnknownVariantError") =>
          det.val = Some("unknown variant \"" \o DisplayStr(err.variant) \o "\"")
    /\ (det # NotCalled /\ odet # NotCalled /\ err.tag \in NamedVariants
        /\ err.tag = other.tag /\ NameOf(err) # NameOf(other)) =>
          /\ det.val # odet.val
          /\ Contains(det.val.val, DisplayStr(NameOf(err)))
          /\ Contains(odet.val.val, DisplayStr(NameOf(other)))

\* C8 amended: the detail of MissingFieldError(s) is "missing field "
\* followed by s as a double-quoted literal with its characters escaped
\* (a quote as \", a backslash as \\), that of UnknownVariantError(s) is
\* "unknown variant " followed by the same; two such errors of the same
\* variant with different names have different details, each containing
\* its own name in that escaped form.
C8_NamedDetail ==
    /\ (det # NotCalled /\ err.tag = "MissingFieldError") =>
          det.val = Some("missing field " \o ShowStr(err.field))
    /\ (det # NotCalled /\ err.tag = "UnknownVariantError") =>
          det.val = Some("unknown variant " \o ShowStr(err.variant))
    /\ (det # NotCalled /\ odet # NotCalled /\ err.tag \in NamedVariants
        /\ err.tag = other.tag /\ NameOf(err) # NameOf(other)) =>
          /\ det.val # odet.val
          /\ Contains(det.val.val, EscapeAll(NameOf(err)))
          /\ Contains(odet.val.val, EscapeAll(NameOf(other)))

\* C8 witness: the details of MissingFieldError("a") and of
\* MissingFieldError("\"") were taken; the second escapes its name.
C8_Witness ==
    /\ err = MissingFieldError(<<"a">>)
    /\ other = MissingFieldError(<<"\"">>)
    /\ det = Ret(Some("missing field \"a\""))
    /\ odet = Ret(Some("missing field \"\\\"\""))

PayloadVariants == {"SyntaxError", "ExpectedError", "MissingFieldError", "UnknownVariantError"}

\* C2: description() does not depend on the payload: two Errors of the same
\* variant (SyntaxError, ExpectedError, MissingFieldError,
\* UnknownVariantError) have the same description.
C2_StableDescription ==
    (desc # NotCalled /\ odesc # NotCalled
     /\ err.tag = other.tag /\ err.tag \in PayloadVariants) =>
        desc.val = odesc.val

\* C5: == on Error is structural: it answers true exactly when the two
\* values are the same variant with equal payload (and so does == on the
\* ErrorCode a SyntaxError owns).
C5_StructuralEq ==
    eq # NotCalled =>
        /\ err # NoError => (eq.val <=> err = other)
        /\ code # NoCode => (eq.val <=> code = ocode)

\* C5 witness: two SyntaxErrors that differ only in col compared unequal.
C5_Witness ==
    /\ eq = Ret(FALSE)
    /\ err.tag = "SyntaxError" /\ other.tag = "SyntaxError"
    /\ err.code = other.code /\ err.line = other.line /\ err.col # other.col

\* C10: distinct values are described distinctly: two different ErrorCodes
\* render to different strings, and two different Errors, neither an
\* IoError, have different details.
C10_Distinct ==
    /\ (shown # NotCalled /\ oshown # NotCalled /\ code # ocode) =>
          shown.val # oshown.val
    /\ (det # NotCalled /\ odet # NotCalled /\ err # other
        /\ err.tag # "IoError" /\ other.tag # "IoError") =>
          det.val # odet.val

\* C10 witness: the details of two SyntaxErrors with the same code at
\* (line 1, col PairBig) and at (line PairBig, col 1) were taken.
C10_Witness ==
    /\ det # NotCalled /\ odet # NotCalled
    /\ err.tag = "SyntaxError" /\ other.tag = "SyntaxError"
    /\ err.code = other.code
    /\ err.line = 1 /\ err.col = PairBig
    /\ other.line = PairBig /\ other.col = 1

====
